---------------------------- MODULE Spec2Model ----------------------------
(***************************************************************************)
(* CHIP-8 interpreter (src/src/chip8.rs) driven by its host loop           *)
(* (src/src/main.rs): Chip8::new(), load_rom(), then key events and        *)
(* cycle() calls.                                                          *)
(*                                                                         *)
(* The machine's fields are the variables.  Every handler of chip8.rs is   *)
(* an operator from a machine record to a machine record; the record also  *)
(* carries `panicked`, set when the handler hits a Rust panic (an index    *)
(* out of bounds, or an arithmetic overflow in a build with overflow       *)
(* checks).  A panic stops the handler where it is: what was written       *)
(* before the panic stays written, nothing after it runs.                  *)
(*                                                                         *)
(* The two large arrays are held sparsely: `memory` maps the addresses of  *)
(* the nonzero cells to their bytes (every other cell of 0..4095 holds 0), *)
(* and `display` is the set of the indices of the cells that are true.     *)
(* Load and Store are the array read and write on that form; an index is   *)
(* checked against the array's length where the code indexes.              *)
(***************************************************************************)
EXTENDS Integers, Sequences, FiniteSets, TLC

VARIABLES
    memory,          \* [u8; 4096], the nonzero cells
    v,               \* [u8; 16]
    i,               \* u16
    pc,              \* u16
    stack,           \* [u16; 16]
    sp,              \* u8
    display,         \* [bool; 32 * 64], the indices of the true cells
    delay_timer,     \* u8
    sound_timer,     \* u8
    keypad,          \* [bool; 16]
    rom,             \* the bytes of the file named by args[1]
    overflow_checks, \* the build: TRUE = arithmetic overflow panics (debug),
                     \*            FALSE = it wraps (release)
    status           \* the host's position: "created", "running",
                     \* "exited" (load_rom returned Err), "panicked"

vars == <<memory, v, i, pc, stack, sp, display, delay_timer, sound_timer,
          keypad, rom, overflow_checks, status>>

-----------------------------------------------------------------------------
(* Program constants *)

MemSize == 4096
ProgramStart == 512          \* 0x200
NumRegs == 16
StackSize == 16
DisplaySize == 2048          \* 32 * 64
DisplayWidth == 64
NumKeys == 16
U8 == 256                    \* number of u8 values
U16 == 65536                 \* number of u16 values
VF == 15                     \* index 0xF of v

FONTSET ==
    << 240, 144, 144, 144, 240,    \* 0
        32,  96,  32,  32, 112,    \* 1
       240,  16, 240, 128, 240,    \* 2
       240,  16, 240,  16, 240,    \* 3
       144, 144, 240,  16,  16,    \* 4
       240, 128, 240,  16, 240,    \* 5
       240, 128, 240, 144, 240,    \* 6
       240,  16,  32,  64,  64,    \* 7
       240, 144, 240, 144, 240,    \* 8
       240, 144, 240,  16, 240,    \* 9
       240, 144, 240, 144, 144,    \* A
       224, 144, 224, 144, 224,    \* B
       240, 128, 128, 128, 240,    \* C
       224, 144, 144, 144, 224,    \* D
       240, 128, 240, 128, 240,    \* E
       240, 128, 240, 128, 128 >>  \* F

-----------------------------------------------------------------------------
(* Bit operations on unsigned integers *)

RECURSIVE BitAnd(_, _)
BitAnd(a, b) ==
    IF a = 0 \/ b = 0 THEN 0
    ELSE (a % 2) * (b % 2) + 2 * BitAnd(a \div 2, b \div 2)

RECURSIVE BitOr(_, _)
BitOr(a, b) ==
    IF a = 0 THEN b
    ELSE IF b = 0 THEN a
    ELSE (IF a % 2 = 1 \/ b % 2 = 1 THEN 1 ELSE 0)
         + 2 * BitOr(a \div 2, b \div 2)

RECURSIVE BitXor(_, _)
BitXor(a, b) ==
    IF a = 0 THEN b
    ELSE IF b = 0 THEN a
    ELSE ((a + b) % 2) + 2 * BitXor(a \div 2, b \div 2)

(* opcode fields, as every handler extracts them *)
X(opcode) == BitAnd(opcode, 3840) \div 256     \* (opcode & 0x0F00) >> 8
Y(opcode) == BitAnd(opcode, 240) \div 16       \* (opcode & 0x00F0) >> 4
N(opcode) == BitAnd(opcode, 15)                \* opcode & 0x000F
KK(opcode) == BitAnd(opcode, 255)              \* opcode & 0x00FF
NNN(opcode) == BitAnd(opcode, 4095)            \* opcode & 0x0FFF

nibbles(opcode) ==
    << BitAnd(opcode, 61440) \div 4096,
       BitAnd(opcode, 3840) \div 256,
       BitAnd(opcode, 240) \div 16,
       BitAnd(opcode, 15) >>

-----------------------------------------------------------------------------
(* The machine as a record, and Rust's checked operations on it *)

Machine ==
    [memory |-> memory, v |-> v, i |-> i, pc |-> pc, stack |-> stack,
     sp |-> sp, display |-> display, delay_timer |-> delay_timer,
     sound_timer |-> sound_timer, keypad |-> keypad, panicked |-> FALSE]

Panic(s) == [s EXCEPT !.panicked = TRUE]

(* memory[a], for a in bounds *)
Load(mem, a) == IF a \in DOMAIN mem THEN mem[a] ELSE 0

(* the array f (addresses to bytes) without its zero cells *)
Sparse(f) == [a \in { x \in DOMAIN f : f[x] # 0 } |-> f[a]]

(* memory[a] = b, for a in bounds *)
Store(mem, a, b) ==
    Sparse([x \in DOMAIN mem \cup {a} |-> IF x = a THEN b ELSE mem[x]])

(* memory[base + k] = bytes[k] for the k in 0..count-1 with base + k in bounds *)
StoreAll(mem, base, bytes, count) ==
    LET dest == { a \in base..(base + count - 1) : a < MemSize }
    IN  Sparse([x \in DOMAIN mem \cup dest |->
                  IF x \in dest THEN bytes[x - base + 1] ELSE mem[x]])

(* `self.pc += k` on a u16 *)
AdvancePc(s, k) ==
    IF s.pc + k >= U16
    THEN IF overflow_checks THEN Panic(s)
         ELSE [s EXCEPT !.pc = (s.pc + k) % U16]
    ELSE [s EXCEPT !.pc = s.pc + k]

(* `self.v[x] = val; self.pc += 2` *)
SetVx(s, x, val) == AdvancePc([s EXCEPT !.v[x] = val], 2)

(* a conditional skip: pc += 4 when cond, else pc += 2 *)
Skip(s, cond) == IF cond THEN AdvancePc(s, 4) ELSE AdvancePc(s, 2)


-----------------------------------------------------------------------------
(* Chip8::new and load_fontset *)

load_fontset(mem) == StoreAll(mem, 0, FONTSET, Len(FONTSET))

new ==
    [memory |-> load_fontset(<< >>),
     v |-> [r \in 0..(NumRegs - 1) |-> 0],
     i |-> 0,
     pc |-> ProgramStart,
     stack |-> [k \in 0..(StackSize - 1) |-> 0],
     sp |-> 0,
     display |-> {},
     delay_timer |-> 0,
     sound_timer |-> 0,
     keypad |-> [k \in 0..(NumKeys - 1) |-> FALSE],
     panicked |-> FALSE]

(* load_rom: one read() into memory[0x200..]; read fills at most the     *)
(* buffer's length and its count is dropped, the result is Ok either way *)
load_rom(mem, bytes) ==
    LET n == IF Len(bytes) < MemSize - ProgramStart
             THEN Len(bytes) ELSE MemSize - ProgramStart
    IN  StoreAll(mem, ProgramStart, bytes, n)

-----------------------------------------------------------------------------
(* fetch *)

(* memory[pc] and memory[pc + 1] are both in bounds *)
FetchInBounds(s) == s.pc + 1 < MemSize

fetch_opcode(s) ==
    LET hi_byte == Load(s.memory, s.pc)
        lo_byte == Load(s.memory, s.pc + 1)
    IN  hi_byte * 256 + lo_byte

-----------------------------------------------------------------------------
(* The instruction handlers *)

op_00e0(s) ==
    AdvancePc([s EXCEPT !.display = {}], 2)

(* 00EE that resumes at the call itself, not behind it *)
op_00ee_at_call(s) ==
    LET s1 == IF s.sp = 0
              THEN IF overflow_checks THEN Panic(s)
                   ELSE [s EXCEPT !.sp = U8 - 1]
              ELSE [s EXCEPT !.sp = s.sp - 1]
    IN  IF s1.panicked THEN s1
        ELSE IF s1.sp >= StackSize THEN Panic(s1)
        ELSE [s1 EXCEPT !.pc = s1.stack[s1.sp]]

op_00ee(s) ==
    LET s1 == IF s.sp = 0
              THEN IF overflow_checks THEN Panic(s)
                   ELSE [s EXCEPT !.sp = U8 - 1]
              ELSE [s EXCEPT !.sp = s.sp - 1]
    IN  IF s1.panicked THEN s1
        ELSE IF s1.sp >= StackSize THEN Panic(s1)
        ELSE IF s1.stack[s1.sp] + 2 >= U16
             THEN IF overflow_checks THEN Panic(s1)
                  ELSE [s1 EXCEPT !.pc = (s1.stack[s1.sp] + 2) % U16]
        ELSE [s1 EXCEPT !.pc = s1.stack[s1.sp] + 2]

op_1nnn(s, opcode) == [s EXCEPT !.pc = NNN(opcode)]

op_2nnn(s, opcode) ==
    IF s.sp >= StackSize THEN Panic(s)
    ELSE LET s1 == [s EXCEPT !.stack[s.sp] = s.pc]
             s2 == IF s1.sp + 1 >= U8
                   THEN IF overflow_checks THEN Panic(s1)
                        ELSE [s1 EXCEPT !.sp = (s1.sp + 1) % U8]
                   ELSE [s1 EXCEPT !.sp = s1.sp + 1]
         IN  IF s2.panicked THEN s2 ELSE [s2 EXCEPT !.pc = NNN(opcode)]

op_3xkk(s, opcode) == Skip(s, s.v[X(opcode)] = KK(opcode))

op_4xkk(s, opcode) == Skip(s, s.v[X(opcode)] # KK(opcode))

op_5xy0(s, opcode) == Skip(s, s.v[X(opcode)] = s.v[Y(opcode)])

op_6xkk(s, opcode) == SetVx(s, X(opcode), KK(opcode))

(* `self.v[x] += kk`: a plain u8 addition *)
op_7xkk(s, opcode) ==
    LET x == X(opcode)
        sum == s.v[x] + KK(opcode)
    IN  IF sum >= U8 /\ overflow_checks THEN Panic(s)
        ELSE SetVx(s, x, sum % U8)

op_8xy0(s, opcode) == SetVx(s, X(opcode), s.v[Y(opcode)])

op_8xy1(s, opcode) ==
    SetVx(s, X(opcode), BitOr(s.v[X(opcode)], s.v[Y(opcode)]))

op_8xy2(s, opcode) ==
    SetVx(s, X(opcode), BitAnd(s.v[X(opcode)], s.v[Y(opcode)]))

op_8xy3(s, opcode) ==
    SetVx(s, X(opcode), BitXor(s.v[X(opcode)], s.v[Y(opcode)]))

(* u8::overflowing_add / overflowing_sub: (wrapped result, overflowed) *)
overflowing_add(a, b) == << (a + b) % U8, a + b >= U8 >>

overflowing_sub(a, b) == << (a - b + U8) % U8, a < b >>

(* `self.v[x] = val; self.v[0xF] = flag; self.pc += 2`, in that order *)
SetVxThenVF(s, x, val, flag) ==
    AdvancePc([s EXCEPT !.v = [[s.v EXCEPT ![x] = val] EXCEPT ![VF] = flag]], 2)

op_8xy4(s, opcode) ==
    LET r == overflowing_add(s.v[X(opcode)], s.v[Y(opcode)])
    IN  SetVxThenVF(s, X(opcode), r[1], IF r[2] THEN 1 ELSE 0)

op_8xy5(s, opcode) ==
    LET r == overflowing_sub(s.v[X(opcode)], s.v[Y(opcode)])
    IN  SetVxThenVF(s, X(opcode), r[1], IF r[2] THEN 0 ELSE 1)

(* v[x] is read again after v[0xF] was written *)
op_8xy6(s, opcode) ==
    LET x == X(opcode)
        v1 == [s.v EXCEPT ![VF] = BitAnd(s.v[x], 1)]
    IN  AdvancePc([s EXCEPT !.v = [v1 EXCEPT ![x] = v1[x] \div 2]], 2)

(* op_8xy7 with the operands of the subtraction the other way round *)
op_8xy7_swapped(s, opcode) ==
    LET r == overflowing_sub(s.v[X(opcode)], s.v[Y(opcode)])
    IN  SetVxThenVF(s, X(opcode), r[1], IF r[2] THEN 0 ELSE 1)

op_8xy7(s, opcode) ==
    LET r == overflowing_sub(s.v[Y(opcode)], s.v[X(opcode)])
    IN  SetVxThenVF(s, X(opcode), r[1], IF r[2] THEN 0 ELSE 1)

(* `<<=` on a u8 drops the bit shifted out, in every build *)
op_8xye(s, opcode) ==
    LET x == X(opcode)
        v1 == [s.v EXCEPT ![VF] = BitAnd(s.v[x], 128) \div 128]
    IN  AdvancePc([s EXCEPT !.v = [v1 EXCEPT ![x] = (v1[x] * 2) % U8]], 2)

op_9xy0(s, opcode) == Skip(s, s.v[X(opcode)] # s.v[Y(opcode)])

op_annn(s, opcode) == AdvancePc([s EXCEPT !.i = NNN(opcode)], 2)

(* nnn + v[0] is at most 0xFFF + 0xFF: no u16 overflow *)
op_bnnn(s, opcode) == [s EXCEPT !.pc = NNN(opcode) + s.v[0]]

(* r is the byte rand::rng().random() returned *)
op_cxkk(s, opcode, r) == SetVx(s, X(opcode), BitAnd(r, KK(opcode)))

(* Dxyn.  Row `row` reads memory[i + row]; the first row whose address is *)
(* out of bounds panics, the rows before it are already drawn.  The      *)
(* pixel of (row, col) is (vx + col + (vy + row) * 64) % 2048; two       *)
(* different (row, col) of one draw never share a pixel (col < 8,        *)
(* row < 16), so a pixel is toggled iff some set sprite bit maps to it.  *)
(* The handler has no `self.pc += 2`.                                    *)
DrawnRows(s, opcode) ==
    { row \in 0..(N(opcode) - 1) : s.i + row < MemSize }

SpriteBit(s, row, col) ==
    BitAnd(Load(s.memory, s.i + row), 128 \div (2 ^ col)) # 0

pixel_index(vx, vy, row, col) ==
    (vx + col + (vy + row) * DisplayWidth) % DisplaySize

Toggled(s, opcode) ==
    { pixel_index(s.v[X(opcode)], s.v[Y(opcode)], row, col) :
        <<row, col>> \in { rc \in DrawnRows(s, opcode) \X (0..7) :
                             SpriteBit(s, rc[1], rc[2]) } }

(* Dxyn that sets pixels instead of toggling them *)
op_dxyn_or(s, opcode) ==
    LET hit == Toggled(s, opcode)
        collision == \E p \in hit : p \in s.display
        s1 == [s EXCEPT
                 !.v[VF] = IF collision THEN 1 ELSE 0,
                 !.display = s.display \cup hit]
    IN  IF s.i + N(opcode) - 1 >= MemSize /\ N(opcode) > 0
        THEN Panic(s1) ELSE s1

op_dxyn(s, opcode) ==
    LET hit == Toggled(s, opcode)
        collision == \E p \in hit : p \in s.display
        s1 == [s EXCEPT
                 !.v[VF] = IF collision THEN 1 ELSE 0,
                 !.display = (s.display \ hit) \cup (hit \ s.display)]
    IN  IF s.i + N(opcode) - 1 >= MemSize /\ N(opcode) > 0
        THEN Panic(s1) ELSE s1

(* Ex9E that reduces the key index modulo 16 instead of faulting *)
op_ex9e_masked(s, opcode) ==
    LET key == s.v[X(opcode)] % NumKeys
    IN  Skip(s, s.keypad[key])

op_ex9e(s, opcode) ==
    LET key == s.v[X(opcode)]
    IN  IF key >= NumKeys THEN Panic(s) ELSE Skip(s, s.keypad[key])

op_exa1(s, opcode) ==
    LET key == s.v[X(opcode)]
    IN  IF key >= NumKeys THEN Panic(s) ELSE Skip(s, ~s.keypad[key])

op_fx07(s, opcode) == SetVx(s, X(opcode), s.delay_timer)

(* keypad.iter().position(|&k| k): the first pressed key, if any *)
AnyKey(s) == \E k \in 0..(NumKeys - 1) : s.keypad[k]

key_pressed(s) ==
    CHOOSE k \in 0..(NumKeys - 1) :
        s.keypad[k] /\ \A j \in 0..(k - 1) : ~s.keypad[j]

op_fx0a(s, opcode) ==
    IF AnyKey(s)
    THEN SetVx(s, X(opcode), key_pressed(s))
    ELSE IF s.pc < 2
         THEN IF overflow_checks THEN Panic(s)
              ELSE [s EXCEPT !.pc = (s.pc - 2 + U16) % U16]
         ELSE [s EXCEPT !.pc = s.pc - 2]

op_fx15(s, opcode) ==
    AdvancePc([s EXCEPT !.delay_timer = s.v[X(opcode)]], 2)

op_fx18(s, opcode) ==
    AdvancePc([s EXCEPT !.sound_timer = s.v[X(opcode)]], 2)

(* `self.i += n` on a u16 *)
AddToI(s, n) ==
    IF s.i + n >= U16
    THEN IF overflow_checks THEN Panic(s)
         ELSE AdvancePc([s EXCEPT !.i = (s.i + n) % U16], 2)
    ELSE AdvancePc([s EXCEPT !.i = s.i + n], 2)

op_fx1e(s, opcode) == AddToI(s, s.v[X(opcode)])

op_fx29(s, opcode) == AddToI(s, s.v[X(opcode)] * 5)

(* Fx33 whose middle digit is vx / 10, not reduced below 10 *)
op_fx33_tens(s, opcode) ==
    LET vx == s.v[X(opcode)]
        s1 == [s EXCEPT !.memory = Store(s.memory, s.i, vx \div 100)]
        s2 == [s1 EXCEPT !.memory = Store(s1.memory, s.i + 1, vx \div 10)]
        s3 == [s2 EXCEPT !.memory = Store(s2.memory, s.i + 2, vx % 10)]
    IN  IF s.i >= MemSize THEN Panic(s)
        ELSE IF s.i + 1 >= MemSize THEN Panic(s1)
        ELSE IF s.i + 2 >= MemSize THEN Panic(s2)
        ELSE AdvancePc(s3, 2)

(* three stores in order; each index is checked when its store runs, *)
(* and i + 1, i + 2 are u16 additions                                *)
op_fx33(s, opcode) ==
    LET vx == s.v[X(opcode)]
        s1 == [s EXCEPT !.memory = Store(s.memory, s.i, vx \div 100)]
        s2 == [s1 EXCEPT !.memory = Store(s1.memory, s.i + 1, (vx % 100) \div 10)]
        s3 == [s2 EXCEPT !.memory = Store(s2.memory, s.i + 2, vx % 10)]
    IN  IF s.i >= MemSize THEN Panic(s)
        ELSE IF s.i + 1 >= MemSize THEN Panic(s1)
        ELSE IF s.i + 2 >= MemSize THEN Panic(s2)
        ELSE AdvancePc(s3, 2)

(* Fx55 over 0..x exclusive: Vx itself is not stored *)
op_fx55_exclusive(s, opcode) ==
    LET x == X(opcode)
        s1 == [s EXCEPT !.memory =
                 StoreAll(s.memory, s.i, [k \in 1..(x + 1) |-> s.v[k - 1]], x)]
    IN  IF s.i + x >= MemSize THEN Panic(s1) ELSE AdvancePc(s1, 2)

(* index runs 0..=x upward: the stores below MemSize are done when the *)
(* first one at or above it panics                                    *)
op_fx55(s, opcode) ==
    LET x == X(opcode)
        s1 == [s EXCEPT !.memory =
                 StoreAll(s.memory, s.i, [k \in 1..(x + 1) |-> s.v[k - 1]], x + 1)]
    IN  IF s.i + x >= MemSize THEN Panic(s1) ELSE AdvancePc(s1, 2)

op_fx65(s, opcode) ==
    LET x == X(opcode)
        s1 == [s EXCEPT !.v =
                 [r \in 0..(NumRegs - 1) |->
                    IF r <= x /\ s.i + r < MemSize
                    THEN Load(s.memory, s.i + r) ELSE s.v[r]]]
    IN  IF s.i + x >= MemSize THEN Panic(s1) ELSE AdvancePc(s1, 2)

-----------------------------------------------------------------------------
(* Dispatch, timers, cycle *)

execute_opcode(s, opcode, r) ==
    LET n == nibbles(opcode)
    IN  CASE n[1] = 0 /\ n[2] = 0 /\ n[3] = 14 /\ n[4] = 0 -> op_00e0(s)
          [] n[1] = 0 /\ n[2] = 0 /\ n[3] = 14 /\ n[4] = 14 -> op_00ee(s)
          [] n[1] = 1 -> op_1nnn(s, opcode)
          [] n[1] = 2 -> op_2nnn(s, opcode)
          [] n[1] = 3 -> op_3xkk(s, opcode)
          [] n[1] = 4 -> op_4xkk(s, opcode)
          [] n[1] = 5 /\ n[4] = 0 -> op_5xy0(s, opcode)
          [] n[1] = 6 -> op_6xkk(s, opcode)
          [] n[1] = 7 -> op_7xkk(s, opcode)
          [] n[1] = 8 /\ n[4] = 0 -> op_8xy0(s, opcode)
          [] n[1] = 8 /\ n[4] = 1 -> op_8xy1(s, opcode)
          [] n[1] = 8 /\ n[4] = 2 -> op_8xy2(s, opcode)
          [] n[1] = 8 /\ n[4] = 3 -> op_8xy3(s, opcode)
          [] n[1] = 8 /\ n[4] = 4 -> op_8xy4(s, opcode)
          [] n[1] = 8 /\ n[4] = 5 -> op_8xy5(s, opcode)
          [] n[1] = 8 /\ n[4] = 6 -> op_8xy6(s, opcode)
          [] n[1] = 8 /\ n[4] = 7 -> op_8xy7(s, opcode)
          [] n[1] = 8 /\ n[4] = 14 -> op_8xye(s, opcode)
          [] n[1] = 9 /\ n[4] = 0 -> op_9xy0(s, opcode)
          [] n[1] = 10 -> op_annn(s, opcode)
          [] n[1] = 11 -> op_bnnn(s, opcode)
          [] n[1] = 12 -> op_cxkk(s, opcode, r)
          [] n[1] = 13 -> op_dxyn(s, opcode)
          [] n[1] = 14 /\ n[3] = 9 /\ n[4] = 14 -> op_ex9e(s, opcode)
          [] n[1] = 14 /\ n[3] = 10 /\ n[4] = 1 -> op_exa1(s, opcode)
          [] n[1] = 15 /\ n[3] = 0 /\ n[4] = 7 -> op_fx07(s, opcode)
          [] n[1] = 15 /\ n[3] = 0 /\ n[4] = 10 -> op_fx0a(s, opcode)
          [] n[1] = 15 /\ n[3] = 1 /\ n[4] = 5 -> op_fx15(s, opcode)
          [] n[1] = 15 /\ n[3] = 1 /\ n[4] = 8 -> op_fx18(s, opcode)
          [] n[1] = 15 /\ n[3] = 1 /\ n[4] = 14 -> op_fx1e(s, opcode)
          [] n[1] = 15 /\ n[3] = 2 /\ n[4] = 9 -> op_fx29(s, opcode)
          [] n[1] = 15 /\ n[3] = 3 /\ n[4] = 3 -> op_fx33(s, opcode)
          [] n[1] = 15 /\ n[3] = 5 /\ n[4] = 5 -> op_fx55(s, opcode)
          [] n[1] = 15 /\ n[3] = 6 /\ n[4] = 5 -> op_fx65(s, opcode)
          [] OTHER -> AdvancePc(s, 2)

(* The second `if` tests sound_timer and decrements delay_timer. *)
update_timers(s) ==
    LET s1 == IF s.delay_timer > 0
              THEN [s EXCEPT !.delay_timer = s.delay_timer - 1] ELSE s
    IN  IF s1.sound_timer > 0
        THEN IF s1.delay_timer = 0
             THEN IF overflow_checks THEN Panic(s1)
                  ELSE [s1 EXCEPT !.delay_timer = U8 - 1]
             ELSE [s1 EXCEPT !.delay_timer = s1.delay_timer - 1]
        ELSE s1

cycle(s, r) ==
    IF ~FetchInBounds(s) THEN Panic(s)
    ELSE LET s1 == execute_opcode(s, fetch_opcode(s), r)
         IN  IF s1.panicked THEN s1 ELSE update_timers(s1)

-----------------------------------------------------------------------------
(* Inputs: the ROM files, the keys the host delivers, the random bytes *)

MaxTimer == 2      \* timers are set to 0..MaxTimer
MaxShort == 6      \* ROM files of 1..MaxShort bytes
MaxExcess == 2     \* ROM files up to MaxExcess bytes under and over the capacity
MaxDepth == 2      \* call chains of 1..MaxDepth nested calls
MaxEdge == 1       \* register values 0..MaxEdge and 255-MaxEdge..255

(* a program: 16-bit words, stored big-endian from 0x200 *)
Asm(ws) ==
    [k \in 1..(2 * Len(ws)) |->
        IF k % 2 = 1 THEN ws[(k + 1) \div 2] \div 256 ELSE ws[k \div 2] % 256]

Op(n1, n2, n3, n4) == n1 * 4096 + n2 * 256 + n3 * 16 + n4

OpKK(n1, x, kk) == n1 * 4096 + x * 256 + kk

OpNNN(n1, nnn) == n1 * 4096 + nnn

(* the address of the word at index k (from 1) of a program *)
WordAt(k) == ProgramStart + 2 * (k - 1)

(* a jump to itself, for the word at index k *)
Halt(k) == OpNNN(1, WordAt(k))

(* ws, then two halts: a skip over the first lands on the second *)
Prog(ws) == Asm(ws \o << Halt(Len(ws) + 1), Halt(Len(ws) + 2) >>)

(* register values: both ends of the u8 range and values between *)
ByteSamples ==
    (0..MaxEdge) \cup ((U8 - 1 - MaxEdge)..(U8 - 1)) \cup {5, 10, 127, 128, 250}

(* delay_timer = d, sound_timer = t, an unmatched word, then the halt loop *)
RomsTimers ==
    { Prog(<< OpKK(6, 0, d), Op(15, 0, 1, 5), OpKK(6, 1, t), Op(15, 1, 1, 8),
              0, Op(15, 2, 0, 7) >>) :
        d \in 0..MaxTimer, t \in 0..MaxTimer }

(* the wait for a key at 0x200 and behind another instruction; the key skips *)
RomsKeys ==
    { Prog(<< Op(15, x, 0, 10) >>) : x \in {0, 5} }
    \cup { Prog(<< OpKK(6, 1, 9), Op(15, x, 0, 10) >>) : x \in {0, 5} }
    \cup { Prog(<< OpKK(6, 0, k), Op(14, 0, n3, n4) >>) :
             k \in {3, 10, 16}, <<n3, n4>> \in { <<9, 14>>, <<10, 1>> } }

(* a file of n bytes: 0x12 0x00 (a halt at 0x200), then nonzero bytes *)
RomFile(n) ==
    [k \in 1..n |-> IF k = 1 THEN 18 ELSE IF k = 2 THEN 0 ELSE (k % 255) + 1]

RomCapacity == MemSize - ProgramStart

RomsLoad ==
    { RomFile(n) : n \in (1..MaxShort)
                     \cup ((RomCapacity - MaxExcess)..(RomCapacity + MaxExcess)) }

(* I = nnn, V0 = a, V1 = b, then BCD, register dump or register load *)
RomsMem ==
    { Prog(<< OpNNN(10, nnn), OpKK(6, 0, a), OpKK(6, 1, 7), Op(15, x, n3, n4) >>) :
        nnn \in {0, 78, 768, 4094}, a \in {0, 255}, x \in {0, 1},
        <<n3, n4>> \in { <<3, 3>>, <<5, 5>>, <<6, 5>> } }
    \cup { Prog(<< Op(15, 0, 3, 3) >>) }

(* d nested calls, each returning to a halt; a return with no call; a     *)
(* call to itself; a return that falls into a second return               *)
CallChain(d) ==
    [k \in 1..(2 * d + 1) |->
        IF k = 2 * d + 1 THEN Op(0, 0, 14, 14)
        ELSE IF k % 2 = 1 THEN OpNNN(2, WordAt(k + 2))
        ELSE Op(0, 0, 14, 14)]

RomsStack ==
    { Asm(CallChain(d) \o << Halt(2 * d + 2) >>) : d \in 1..MaxDepth }
    \cup { Asm(<< OpNNN(2, WordAt(3)), Halt(2), Op(0, 0, 14, 14) >>),
           Asm(<< Op(0, 0, 14, 14) >>),
           Asm(<< OpNNN(2, WordAt(1)) >>),
           Asm(<< OpNNN(2, WordAt(2)), Op(0, 0, 14, 14) >>) }

(* V0 = a, V1 = b, I = 0x300, then one instruction of every kind; the *)
(* glyph of a drawn at (V0, V1)                                      *)
PcOps ==
    { Op(0, 0, 14, 0), OpKK(3, 0, 1), OpKK(4, 0, 1), Op(5, 0, 1, 0),
      OpKK(6, 2, 9), OpKK(7, 0, 9), Op(9, 0, 1, 0), OpNNN(10, 801),
      OpKK(12, 2, 15), Op(13, 0, 1, 2), Op(14, 0, 9, 14), Op(14, 0, 10, 1),
      Op(15, 2, 0, 7), Op(15, 2, 0, 10), Op(15, 0, 1, 5), Op(15, 0, 1, 8),
      Op(15, 0, 1, 14), Op(15, 0, 2, 9), Op(15, 0, 3, 3), Op(15, 1, 5, 5),
      Op(15, 1, 6, 5) }
    \cup { Op(8, 0, 1, n4) : n4 \in {0, 1, 2, 3, 4, 5, 6, 7, 14} }

RomsPc ==
    { Prog(<< OpKK(6, 0, a), OpKK(6, 1, b), OpNNN(10, 768), op >>) :
        a \in {1, 3}, b \in {1, 3}, op \in PcOps }
    \cup { Prog(<< OpKK(6, 0, a), OpNNN(10, 5 * a), Op(13, 0, 1, n) >>) :
             a \in {1, 3}, n \in {1, 5} }

(* Vx = a, then 7xkk; Vx = a, Vy = b, then 8xy4, 8xy5 or 8xy7 *)
RegPairs == { <<0, 1>>, <<1, 1>>, <<3, 15>>, <<15, 2>> }

RomsArith ==
    { Prog(<< OpKK(6, x, a), OpKK(7, x, kk) >>) :
        x \in {0, 15}, a \in ByteSamples, kk \in ByteSamples }
    \cup { Prog(<< OpKK(6, xy[1], a), OpKK(6, xy[2], b), Op(8, xy[1], xy[2], n4) >>) :
             xy \in RegPairs, a \in ByteSamples, b \in ByteSamples,
             n4 \in {4, 5, 7} }

(* Vx = a, Vy = b, then a shift of Vx with x = 0 or x = 0xF; VF = a,     *)
(* V1 = b, then 8F14, 8F15 or 8F17; VF = a, then the glyph of 0 drawn at *)
(* (VF, V1), which the next cycle draws again                            *)
FlagBytes == { 0, 1, 128, 255 }

RomsFlags ==
    { Prog(<< OpKK(6, x, a), OpKK(6, 1, 7), Op(8, x, 1, n4) >>) :
        x \in {0, 15}, a \in ByteSamples, n4 \in {6, 14} }
    \cup { Prog(<< OpKK(6, 15, a), OpKK(6, 1, b), Op(8, 15, 1, n4) >>) :
             a \in FlagBytes, b \in FlagBytes, n4 \in {4, 5, 7} }
    \cup { Prog(<< OpKK(6, 15, a), OpKK(6, 1, 2), Op(13, 15, 1, 5) >>) :
             a \in {0, 1} }

(* V0 = a, V1 = b, I = nnn, then a sprite of n rows drawn at (V0, V1): *)
(* font glyphs, the program's own bytes, rows that end past the memory; *)
(* the same with the column in VF, which the draw itself rewrites.  A   *)
(* draw does not advance pc, so every later cycle draws again.          *)
SpriteXs == { 0, 62, 70 }

SpriteYs == { 0, 30, 40 }

SpriteAddrs == { 0, 5, ProgramStart, MemSize - 2 }

SpriteHeights == { 0, 1, 5 }

RomsDraw ==
    { Prog(<< OpKK(6, 0, a), OpKK(6, 1, b), OpNNN(10, nnn), Op(13, 0, 1, n) >>) :
        a \in SpriteXs, b \in SpriteYs, nnn \in SpriteAddrs, n \in SpriteHeights }
    \cup { Prog(<< OpKK(6, 15, a), OpKK(6, 1, b), OpNNN(10, 5), Op(13, 15, 1, n) >>) :
             a \in {0, 1, 62}, b \in SpriteYs, n \in {1, 5} }

(* V0 = a, V1 = b, VF = c, I = nnn, the registers V0..Vx dumped, V0, V1 *)
(* and VF overwritten with j, then V0..Vx loaded back; I + x <= 4095     *)
DumpValues == { << 1, 2, 3 >>, << 255, 0, 128 >> }

DumpAddrs(x) == { 2, 768, MemSize - 1 - x }

DumpRoms(x) ==
    { Prog(<< OpKK(6, 0, abc[1]), OpKK(6, 1, abc[2]), OpKK(6, 15, abc[3]),
              OpNNN(10, nnn), Op(15, x, 5, 5),
              OpKK(6, 0, j), OpKK(6, 1, j), OpKK(6, 15, j),
              Op(15, x, 6, 5) >>) :
        abc \in DumpValues, j \in {0, 9}, nnn \in DumpAddrs(x) }

RomsDump == UNION { DumpRoms(x) : x \in {0, 1, 15} }

(* V0 = kk for every byte kk, I = 0x300, then F033; the same with Vx in *)
(* V0 or VF and I + 2 = 4095                                            *)
RomsBcd ==
    { Prog(<< OpKK(6, 0, kk), OpNNN(10, 768), Op(15, 0, 3, 3) >>) :
        kk \in 0..(U8 - 1) }
    \cup { Prog(<< OpKK(6, x, kk), OpNNN(10, MemSize - 3), Op(15, x, 3, 3) >>) :
             x \in {0, 15}, kk \in ByteSamples }

(* Vx = kk, I = nnn, then Fx29 *)
RomsFont ==
    { Prog(<< OpKK(6, x, kk), OpNNN(10, nnn), Op(15, x, 2, 9) >>) :
        x \in {0, 5}, kk \in {0, 1, 9, 15, 16, 31, 255},
        nnn \in {0, 5, 768, MemSize - 1} }

(* d calls nested in each other: word 1 calls word 3, which calls word 5, *)
(* ..; the last one returns at once, every other one returns behind its   *)
(* call, and word 2 is the halt behind the first call.  And two calls in  *)
(* a row, the second one calling the subroutine of the first.             *)
NestedCalls(d) ==
    [k \in 1..(2 * d + 1) |->
        IF k = 2 THEN Halt(2)
        ELSE IF k % 2 = 1 /\ k < 2 * d + 1 THEN OpNNN(2, WordAt(k + 2))
        ELSE Op(0, 0, 14, 14)]

RomsCalls ==
    { Asm(NestedCalls(d)) : d \in 1..StackSize }
    \cup { Asm(<< OpNNN(2, WordAt(4)), OpNNN(2, WordAt(5)), Halt(3),
                  Op(0, 0, 14, 14), OpNNN(2, WordAt(4)), Op(0, 0, 14, 14) >>) }

(* Jumps to the last two bytes of the memory and past them.  The last  *)
(* three cells filled with 0xFF, 9, 0x81, then I = nnn (and I raised by  *)
(* V0 = 0xFF through F01E) and a BCD store, a register dump, a register  *)
(* load or a draw that reaches the end of the memory or goes past it.    *)
(* V0 = k, then a key skip on V0.                                        *)
EdgeOps ==
    { Op(15, 1, 3, 3), Op(15, 0, 5, 5), Op(15, 2, 5, 5), Op(15, 0, 6, 5),
      Op(15, 2, 6, 5), Op(13, 3, 3, 1), Op(13, 3, 3, 3) }

RomsEdge ==
    { Prog(<< OpNNN(1, nnn) >>) : nnn \in {MemSize - 2, MemSize - 1} }
    \cup { Prog(<< OpKK(6, 0, 255), OpNNN(11, MemSize - 1) >>) }
    \cup { Prog(<< OpKK(6, 0, 255), OpKK(6, 1, 9), OpKK(6, 2, 129),
                   OpNNN(10, MemSize - 3), Op(15, 2, 5, 5),
                   OpNNN(10, nnn), op >>) :
             nnn \in (MemSize - 3)..(MemSize - 1), op \in EdgeOps }
    \cup { Prog(<< OpKK(6, 0, 255), OpNNN(10, MemSize - 1), Op(15, 0, 1, 14), op >>) :
             op \in EdgeOps }
    \cup { Prog(<< OpKK(6, 0, k), Op(14, 0, n3, n4) >>) :
             k \in {15, 16, 255}, <<n3, n4>> \in { <<9, 14>>, <<10, 1>> } }

(* words that no arm of execute_opcode matches, run with V0 = V1 = 7 and *)
(* quiet timers, then behind F015 and F118 with the sound timer running  *)
UnmatchedWords ==
    { Op(0, 0, 0, 0), Op(0, 1, 2, 3), Op(0, 0, 14, 1), Op(0, 0, 14, 15),
      Op(0, 1, 14, 0), Op(5, 0, 1, 1), Op(5, 0, 1, 15), Op(9, 0, 1, 1),
      Op(8, 0, 1, 8), Op(8, 0, 1, 13), Op(8, 0, 1, 15), Op(14, 0, 9, 15),
      Op(14, 0, 10, 0), Op(14, 0, 0, 0), Op(15, 0, 0, 0), Op(15, 0, 0, 8),
      Op(15, 1, 6, 6), Op(15, 0, 15, 15) }

RomsUnmatched ==
    { Prog(<< OpKK(6, 0, 7), OpKK(6, 1, 7), OpNNN(10, 768), w >>) :
        w \in UnmatchedWords }
    \cup { Prog(<< OpKK(6, 0, d), OpKK(6, 1, 1), Op(15, 0, 1, 5), Op(15, 1, 1, 8), w >>) :
             d \in {0, 3, 9}, w \in { Op(0, 0, 0, 0), Op(15, 0, 15, 15) } }

(* V0 = n, V1 = t, the delay timer set to 9, the sound timer set to t, *)
(* then the delay timer set to n and read back into V3                 *)
RomsOrder ==
    { Prog(<< OpKK(6, 0, n), OpKK(6, 1, t), OpKK(6, 2, 9), Op(15, 2, 1, 5),
              Op(15, 1, 1, 8), Op(15, 0, 1, 5), Op(15, 3, 0, 7) >>) :
        n \in {0, 1, 2, 5, 255}, t \in {0, 1} }

Roms ==
    RomsTimers \cup RomsKeys \cup RomsLoad \cup RomsMem \cup RomsStack
    \cup RomsPc \cup RomsArith \cup RomsFlags \cup RomsDraw
    \cup RomsDump \cup RomsBcd \cup RomsFont
    \cup RomsCalls \cup RomsEdge \cup RomsUnmatched
    \cup RomsOrder

Keys == {3, 10}

RandomBytes == {0, 85, 255}

-----------------------------------------------------------------------------
(* The host (main.rs) *)

InitWith(roms) ==
    /\ memory = new.memory
    /\ v = new.v
    /\ i = new.i
    /\ pc = new.pc
    /\ stack = new.stack
    /\ sp = new.sp
    /\ display = new.display
    /\ delay_timer = new.delay_timer
    /\ sound_timer = new.sound_timer
    /\ keypad = new.keypad
    /\ rom \in roms
    /\ overflow_checks \in BOOLEAN
    /\ status = "created"

(* chip8.load_rom(&args[1]) returned Ok: the loop starts *)
LoadRomOk ==
    /\ status = "created"
    /\ memory' = load_rom(memory, rom)
    /\ status' = "running"
    /\ UNCHANGED <<v, i, pc, stack, sp, display, delay_timer, sound_timer,
                   keypad, rom, overflow_checks>>

(* File::open or read returned Err: main prints it and returns *)
LoadRomErr ==
    /\ status = "created"
    /\ status' = "exited"
    /\ UNCHANGED <<memory, v, i, pc, stack, sp, display, delay_timer,
                   sound_timer, keypad, rom, overflow_checks>>

KeyDown(key) ==
    /\ status = "running"
    /\ keypad' = [keypad EXCEPT ![key] = TRUE]
    /\ UNCHANGED <<memory, v, i, pc, stack, sp, display, delay_timer,
                   sound_timer, rom, overflow_checks, status>>

KeyUp(key) ==
    /\ status = "running"
    /\ keypad' = [keypad EXCEPT ![key] = FALSE]
    /\ UNCHANGED <<memory, v, i, pc, stack, sp, display, delay_timer,
                   sound_timer, rom, overflow_checks, status>>

(* the bytes rand can return in this cycle: it is called by Cxkk only *)
RandomDraws ==
    IF FetchInBounds(Machine) /\ nibbles(fetch_opcode(Machine))[1] = 12
    THEN RandomBytes ELSE {0}

(* the machine after chip8.cycle(), rand returning r *)
Cycled(r) ==
    LET s == cycle(Machine, r)
    IN  /\ memory' = s.memory
        /\ v' = s.v
        /\ i' = s.i
        /\ pc' = s.pc
        /\ stack' = s.stack
        /\ sp' = s.sp
        /\ display' = s.display
        /\ delay_timer' = s.delay_timer
        /\ sound_timer' = s.sound_timer
        /\ keypad' = s.keypad
        /\ status' = IF s.panicked THEN "panicked" ELSE "running"

Cycle ==
    /\ status = "running"
    /\ \E r \in RandomDraws : Cycled(r)
    /\ UNCHANGED <<rom, overflow_checks>>

Next ==
    \/ LoadRomOk
    \/ LoadRomErr
    \/ \E key \in Keys : KeyDown(key)
    \/ \E key \in Keys : KeyUp(key)
    \/ Cycle

Init == InitWith(Roms)

Spec == Init /\ [][Next]_vars

(* the same machine and host, started on one family of ROM files *)
SpecTimers == InitWith(RomsTimers) /\ [][Next]_vars

SpecKeys == InitWith(RomsKeys) /\ [][Next]_vars

SpecLoad == InitWith(RomsLoad) /\ [][Next]_vars

SpecMem == InitWith(RomsMem) /\ [][Next]_vars

SpecStack == InitWith(RomsStack) /\ [][Next]_vars

SpecPc == InitWith(RomsPc) /\ [][Next]_vars

SpecArith == InitWith(RomsArith) /\ [][Next]_vars

SpecFlags == InitWith(RomsFlags) /\ [][Next]_vars

SpecDraw == InitWith(RomsDraw) /\ [][Next]_vars

SpecDump == InitWith(RomsDump) /\ [][Next]_vars

SpecBcd == InitWith(RomsBcd) /\ [][Next]_vars

SpecFont == InitWith(RomsFont) /\ [][Next]_vars

SpecCalls == InitWith(RomsCalls) /\ [][Next]_vars

SpecEdge == InitWith(RomsEdge) /\ [][Next]_vars

SpecUnmatched == InitWith(RomsUnmatched) /\ [][Next]_vars

SpecOrder == InitWith(RomsOrder) /\ [][Next]_vars


-----------------------------------------------------------------------------
(* Vocabulary of the properties.  The properties of single cycles are     *)
(* action properties [][A]_vars: they constrain every step that changes   *)
(* the state.                                                             *)

(* the instruction the next cycle() fetches *)
CurOp == fetch_opcode(Machine)

(* this step is a cycle() that fetched an instruction *)
CycleStep == status = "running" /\ FetchInBounds(Machine) /\ Cycle

(* the handler of the instruction about to be fetched does not panic *)
InstrCompletes ==
    FetchInBounds(Machine) /\ ~execute_opcode(Machine, CurOp, 0).panicked

(* the classes of instruction words *)
InFamily(w, n1) == w \div 4096 = n1

IsFx(w, kk) == InFamily(w, 15) /\ w % 256 = kk

IsEx(w, kk) == InFamily(w, 14) /\ w % 256 = kk

IsAlu(w, n4) == InFamily(w, 8) /\ w % 16 = n4

XOf(w) == (w \div 256) % 16

YOf(w) == (w \div 16) % 16

(* about to fetch FX0A *)
AtWaitForKey == status = "running" /\ FetchInBounds(Machine) /\ IsFx(CurOp, 10)

Pressed == { k \in 0..(NumKeys - 1) : keypad[k] }

LowestPressed == CHOOSE k \in Pressed : \A j \in Pressed : k <= j

FontIntact == \A a \in 0..(Len(FONTSET) - 1) : Load(memory, a) = FONTSET[a + 1]

-----------------------------------------------------------------------------
(* C1: in a cycle whose instruction is not FX15 (and completes), the delay *)
(* timer goes down by one when it is above 0 and stays 0 when it is 0,     *)
(* whatever the sound timer holds, and the cycle does not fault.           *)
C1_DelayTimerFloor ==
    [][ (InstrCompletes /\ ~IsFx(CurOp, 21) /\ CycleStep)
        => /\ status' = "running"
           /\ delay_timer' = IF delay_timer > 0 THEN delay_timer - 1 ELSE 0 ]_vars

(* C2: in a cycle whose instruction is not FX18 (and completes), a nonzero *)
(* sound timer goes down by exactly one.                                   *)
C2_SoundTimerCountdown ==
    [][ (sound_timer > 0 /\ InstrCompletes /\ ~IsFx(CurOp, 24) /\ CycleStep)
        => sound_timer' = sound_timer - 1 ]_vars

(* C3: a cycle on FX0A leaves pc and every V register as they were when no *)
(* key is pressed; with a key pressed it sets Vx to the lowest pressed key *)
(* and advances pc by 2.                                                   *)
C3_WaitForKeyStep ==
    [][ (AtWaitForKey /\ CycleStep)
        => IF Pressed = {}
           THEN pc' = pc /\ v' = v
           ELSE v'[XOf(CurOp)] = LowestPressed /\ pc' = pc + 2 ]_vars

(* C4: after a cycle on FX0A at address a with no key pressed, the machine *)
(* is about to fetch that same instruction at a again, until a key is      *)
(* pressed; the cycle on it then stores the key and leaves pc = a + 2.     *)
C4_BlockedUntilKey ==
    [][ (AtWaitForKey /\ CycleStep)
        => IF Pressed = {}
           THEN AtWaitForKey' /\ pc' = pc
           ELSE /\ v' = [v EXCEPT ![XOf(CurOp)] = LowestPressed]
                /\ pc' = pc + 2 ]_vars

(* C5: loading a file longer than 4096 - 0x200 bytes fails and never loads *)
(* a truncated program; a load of a file that fits copies it verbatim to   *)
(* memory[0x200..] and changes nothing else.                               *)
C5_LoadBound ==
    [][ status = "created"
        => IF Len(rom) > MemSize - ProgramStart
           THEN status' = "exited" /\ memory' = memory
           ELSE /\ status' = "running" =>
                   \A a \in 0..(MemSize - 1) :
                      Load(memory', a) =
                         IF a >= ProgramStart /\ a < ProgramStart + Len(rom)
                         THEN rom[a - ProgramStart + 1] ELSE Load(memory, a)
                /\ UNCHANGED <<v, i, pc, stack, sp, display, delay_timer,
                               sound_timer, keypad>> ]_vars

(* C6: memory[0x000..0x04F] always holds the built-in font table. *)
C6_FontRegion == FontIntact

(* C7: 0 <= sp <= 16 in every state. *)
C7_StackPointerRange == sp \in 0..StackSize

(* jumps, call and return *)
PcRedirects(w) ==
    InFamily(w, 1) \/ InFamily(w, 2) \/ InFamily(w, 11) \/ w = Op(0, 0, 14, 14)

IsSkip(w) ==
    \/ InFamily(w, 3)
    \/ InFamily(w, 4)
    \/ (InFamily(w, 5) \/ InFamily(w, 9)) /\ w % 16 = 0
    \/ IsEx(w, 158)
    \/ IsEx(w, 161)

SkipTaken(w) ==
    LET n1 == w \div 4096
        vx == v[XOf(w)]
        vy == v[YOf(w)]
    IN  CASE n1 = 3 -> vx = w % 256
          [] n1 = 4 -> vx # w % 256
          [] n1 = 5 -> vx = vy
          [] n1 = 9 -> vx # vy
          [] n1 = 14 /\ w % 256 = 158 -> keypad[vx]
          [] n1 = 14 /\ w % 256 = 161 -> ~keypad[vx]

(* C8: a completed instruction that is no jump, call, return, skip or     *)
(* blocked wait for a key advances pc by exactly 2 (Dxyn included); a     *)
(* skip advances pc by 4 when its condition holds and by 2 otherwise.     *)
C8_PcPolicy ==
    [][ (InstrCompletes /\ CycleStep)
        => IF PcRedirects(CurOp) THEN TRUE
           ELSE IF IsSkip(CurOp)
                THEN pc' = pc + (IF SkipTaken(CurOp) THEN 4 ELSE 2)
           ELSE IF IsFx(CurOp, 10) /\ Pressed = {} THEN TRUE
           ELSE pc' = pc + 2 ]_vars

(* C9: a cycle on 7xkk completes (pc advances by 2) with Vx = (Vx + kk)   *)
(* mod 256, also when Vx + kk > 255, and changes no other register.       *)
C9_AddImmediateWraps ==
    [][ (FetchInBounds(Machine) /\ InFamily(CurOp, 7) /\ CycleStep)
        => /\ pc' = pc + 2
           /\ v' = [v EXCEPT ![XOf(CurOp)] = (v[XOf(CurOp)] + (CurOp % 256)) % U8] ]_vars

(* the result and the flag of 8xy4, 8xy5, 8xy7 on Vx = a, Vy = b *)
AluResult(n4, a, b) ==
    CASE n4 = 4 -> << (a + b) % U8, IF a + b > 255 THEN 1 ELSE 0 >>
      [] n4 = 5 -> << (a - b + U8) % U8, IF a < b THEN 0 ELSE 1 >>
      [] n4 = 7 -> << (b - a + U8) % U8, IF b < a THEN 0 ELSE 1 >>

(* C10: for x # 0xF, 8xy4 leaves Vx = (Vx + Vy) mod 256 and VF = 1 iff    *)
(* Vx + Vy > 255; 8xy5 leaves Vx = (Vx - Vy) mod 256 and VF = 0 iff       *)
(* Vx < Vy; 8xy7 leaves Vx = (Vy - Vx) mod 256 and VF = 0 iff Vy < Vx.    *)
(* (Every cycle on these instructions changes pc, so none of them is a    *)
(* stuttering step.)                                                      *)
C10_AddSubFlags ==
    [][ \A n4 \in {4, 5, 7} :
          (/\ FetchInBounds(Machine)
           /\ IsAlu(CurOp, n4)
           /\ XOf(CurOp) # VF
           /\ CycleStep)
          => LET r == AluResult(n4, v[XOf(CurOp)], v[YOf(CurOp)])
             IN  /\ v'[XOf(CurOp)] = r[1]
                 /\ v'[VF] = r[2]
                 /\ pc' = pc + 2 ]_vars

(* 8015 has run on V0 = 5, V1 = 10: a borrow *)
C10_Witness ==
    /\ rom = Prog(<< OpKK(6, 0, 5), OpKK(6, 1, 10), Op(8, 0, 1, 5) >>)
    /\ pc = WordAt(4)
    /\ v[0] = 251
    /\ v[VF] = 0


(* the pixels the next draw toggles meet a lit pixel *)
Collides == \E p \in Toggled(Machine, CurOp) : p \in display

(* C11: with x = 0xF, VF after 8xy4, 8xy5, 8xy7, 8xy6, 8xyE and Dxyn is   *)
(* the flag (carry, not-borrow, the lowest and the highest bit of the old *)
(* VF, the collision), not the result of the arithmetic or of the shift;  *)
(* with x # 0xF, 8xy6 leaves VF = the lowest bit of Vx and Vx halved,     *)
(* 8xyE leaves VF = the highest bit of Vx and Vx doubled within 8 bits.   *)
C11_FlagWins ==
    [][ (FetchInBounds(Machine) /\ InstrCompletes /\ CycleStep)
        => LET x == XOf(CurOp)
               y == YOf(CurOp)
           IN  /\ \A n4 \in {4, 5, 7} :
                     (IsAlu(CurOp, n4) /\ x = VF)
                     => v'[VF] = AluResult(n4, v[VF], v[y])[2]
               /\ (IsAlu(CurOp, 6) /\ x = VF) => v'[VF] = v[VF] % 2
               /\ (IsAlu(CurOp, 14) /\ x = VF) => v'[VF] = v[VF] \div 128
               /\ (InFamily(CurOp, 13) /\ x = VF)
                  => v'[VF] = IF Collides THEN 1 ELSE 0
               /\ (IsAlu(CurOp, 6) /\ x # VF)
                  => v'[VF] = v[x] % 2 /\ v'[x] = v[x] \div 2
               /\ (IsAlu(CurOp, 14) /\ x # VF)
                  => v'[VF] = v[x] \div 128 /\ v'[x] = (2 * v[x]) % U8 ]_vars

(* about to fetch a Dxyn *)
AtDraw == status = "running" /\ FetchInBounds(Machine) /\ InFamily(CurOp, 13)

(* the machine after the Dxyn about to run, and after running it again *)
FirstDraw == execute_opcode(Machine, CurOp, 0)

SecondDraw == execute_opcode(FirstDraw, CurOp, 0)

(* the first draw completes and leaves Vx and Vy as they were *)
SameDrawTwice ==
    /\ AtDraw
    /\ ~FirstDraw.panicked
    /\ FirstDraw.v[XOf(CurOp)] = v[XOf(CurOp)]
    /\ FirstDraw.v[YOf(CurOp)] = v[YOf(CurOp)]

(* C12 as stated: the same Dxyn run twice in succession gives back the    *)
(* framebuffer from before the first draw, and the second draw ends with  *)
(* VF = 1 whenever the sprite has a set bit.                              *)
C12_AsStated ==
    SameDrawTwice
    => /\ ~SecondDraw.panicked
       /\ SecondDraw.display = display
       /\ Toggled(Machine, CurOp) # {} => SecondDraw.v[VF] = 1

(* C12, amended: the same Dxyn run twice in succession gives back the     *)
(* framebuffer from before the first draw, and the second draw ends with  *)
(* VF = 1 exactly when a cell the sprite toggles was off before the first *)
(* draw (with VF = 0 when all of them were lit, or the sprite is blank).  *)
C12_DrawInvolution ==
    SameDrawTwice
    => /\ ~SecondDraw.panicked
       /\ SecondDraw.display = display
       /\ SecondDraw.v[VF] = IF Toggled(Machine, CurOp) \ display # {} THEN 1 ELSE 0

(* the glyph of 1 has been drawn twice at (62, 30): the screen is blank *)
(* again and the second draw has met the first                          *)
C12_Witness ==
    /\ rom = Prog(<< OpKK(6, 0, 62), OpKK(6, 1, 30), OpNNN(10, 5), Op(13, 0, 1, 5) >>)
    /\ AtDraw
    /\ Toggled(Machine, CurOp) # {}
    /\ display = {}
    /\ v[VF] = 1

(* the value the ROMs of RomsDump give Vk before the dump *)
Dumped(k) ==
    IF k = 0 THEN rom[2] ELSE IF k = 1 THEN rom[4] ELSE IF k = VF THEN rom[6] ELSE 0

(* memory' differs from memory in the cells of `cells` at most *)
MemoryKeptOutside(cells) ==
    \A a \in 0..(MemSize - 1) :
        a \notin cells => Load(memory', a) = Load(memory, a)

(* C13: with I + x < 4096, Fx55 writes memory[I..I+x] = V0..Vx and        *)
(* changes no other memory cell, no register and not I; Fx65 loads        *)
(* V0..Vx from memory[I..I+x] and changes no memory, no register above Vx *)
(* and not I; Fx65 after Fx55 with the same I gives V0..Vx the values     *)
(* they had before the Fx55, whatever was written to them in between.     *)
C13_DumpLoadRoundTrip ==
    [][ (FetchInBounds(Machine) /\ i + XOf(CurOp) < MemSize /\ CycleStep)
        => LET x == XOf(CurOp)
           IN  /\ IsFx(CurOp, 85)
                  => /\ \A k \in 0..x : Load(memory', i + k) = v[k]
                     /\ MemoryKeptOutside(i..(i + x))
                     /\ v' = v
                     /\ i' = i
               /\ IsFx(CurOp, 101)
                  => /\ memory' = memory
                     /\ \A k \in 0..x : v'[k] = Load(memory, i + k)
                     /\ \A k \in (x + 1)..(NumRegs - 1) : v'[k] = v[k]
                     /\ i' = i
               /\ (IsFx(CurOp, 101) /\ rom \in RomsDump)
                  => \A k \in 0..x : v'[k] = Dumped(k) ]_vars

(* FF55 at I = 4080, V0, V1 and VF overwritten with 9, then FF65: the *)
(* registers are back and memory holds the dump                       *)
C13_Witness ==
    /\ rom = Prog(<< OpKK(6, 0, 255), OpKK(6, 1, 0), OpKK(6, 15, 128),
                     OpNNN(10, 4080), Op(15, 15, 5, 5),
                     OpKK(6, 0, 9), OpKK(6, 1, 9), OpKK(6, 15, 9),
                     Op(15, 15, 6, 5) >>)
    /\ pc = WordAt(10)
    /\ v[0] = 255 /\ v[1] = 0 /\ v[VF] = 128
    /\ Load(memory, 4080) = 255 /\ Load(memory, 4095) = 128

(* C14: with I + 2 < 4096, Fx33 leaves memory[I] = Vx div 100,            *)
(* memory[I+1] = (Vx div 10) mod 10 and memory[I+2] = Vx mod 10, three     *)
(* digits in 0..9 with 100*memory[I] + 10*memory[I+1] + memory[I+2] = Vx,  *)
(* and changes no other memory cell, no register and not I.                *)
C14_BcdStore ==
    [][ (FetchInBounds(Machine) /\ IsFx(CurOp, 51) /\ i + 2 < MemSize /\ CycleStep)
        => LET vx == v[XOf(CurOp)]
               hundreds == Load(memory', i)
               tens == Load(memory', i + 1)
               ones == Load(memory', i + 2)
           IN  /\ hundreds = vx \div 100
               /\ tens = (vx \div 10) % 10
               /\ ones = vx % 10
               /\ {hundreds, tens, ones} \subseteq 0..9
               /\ 100 * hundreds + 10 * tens + ones = vx
               /\ MemoryKeptOutside(i..(i + 2))
               /\ v' = v
               /\ i' = i ]_vars

(* FF33 has run on VF = 254 at I = 4093 *)
C14_Witness ==
    /\ rom = Prog(<< OpKK(6, 15, 254), OpNNN(10, MemSize - 3), Op(15, 15, 3, 3) >>)
    /\ pc = WordAt(4)
    /\ Load(memory, 4093) = 2
    /\ Load(memory, 4094) = 5
    /\ Load(memory, 4095) = 4

(* the framebuffer cell at column col of row row *)
Cell(col, row) == col + DisplayWidth * row

(* the cells the sprite of the Dxyn about to run covers when a set bit at *)
(* row r, column c goes to column (Vx + c) mod 64 of row (Vy + r) mod 32  *)
CellsByRowAndColumn ==
    { Cell((v[XOf(CurOp)] + rc[2]) % DisplayWidth,
           (v[YOf(CurOp)] + rc[1]) % (DisplaySize \div DisplayWidth)) :
        rc \in { rc \in (0..((CurOp % 16) - 1)) \X (0..7) :
                   SpriteBit(Machine, rc[1], rc[2]) } }

(* C15: a Dxyn that completes toggles exactly the cells at column         *)
(* (Vx + c) mod 64 and row (Vy + r) mod 32 for the set bits (r, c) of the *)
(* sprite (a sprite crossing the right edge wraps to column 0 of the same *)
(* row), and leaves VF = 1 iff one of these cells was lit, else VF = 0.   *)
C15_DrawPlacement ==
    [][ (AtDraw /\ InstrCompletes /\ CycleStep)
        => LET cells == CellsByRowAndColumn
           IN  /\ display' = (display \ cells) \cup (cells \ display)
               /\ v'[VF] = IF cells \cap display # {} THEN 1 ELSE 0 ]_vars

(* C16: after Fx29, I = 5 * (Vx mod 16), the address of the glyph of the *)
(* low nibble of Vx in the font table at 0, whatever I held before.      *)
C16_FontLookup ==
    [][ (FetchInBounds(Machine) /\ IsFx(CurOp, 41) /\ CycleStep)
        => i' = 5 * (v[XOf(CurOp)] % 16) ]_vars

(* about to run 00EE *)
IsReturn(w) == w = 238

(* the ROM is one of the chains of nested calls *)
IsNestedChain == \E d \in 1..StackSize : rom = Asm(NestedCalls(d))

(* C17: a 2nnn at address a with sp = d < 16 stores a in stack[d] and      *)
(* leaves sp = d + 1 and pc = nnn; a 00EE with sp = d + 1 leaves sp = d    *)
(* and pc = stack[d] + 2; no cycle changes a stack entry other than the    *)
(* one a call writes, so stack[d] still holds a at the matching return.    *)
(* In a chain of up to 16 nested calls, where the call at depth d is at    *)
(* word 2d + 1, the return taken with sp = k resumes at word 2k, behind    *)
(* the call of depth k - 1 (LIFO), and the last one leaves sp = 0.         *)
C17_CallReturnPairing ==
    [][ (FetchInBounds(Machine) /\ CycleStep)
        => /\ (InFamily(CurOp, 2) /\ sp < StackSize)
              => /\ stack' = [stack EXCEPT ![sp] = pc]
                 /\ sp' = sp + 1
                 /\ pc' = CurOp % 4096
           /\ (IsReturn(CurOp) /\ sp \in 1..StackSize)
              => /\ sp' = sp - 1
                 /\ pc' = stack[sp - 1] + 2
           /\ ~InFamily(CurOp, 2) => stack' = stack
           /\ (IsNestedChain /\ IsReturn(CurOp))
              => /\ sp >= 1
                 /\ sp' = sp - 1
                 /\ pc' = WordAt(2 * sp) ]_vars

(* sixteen nested calls have returned: the run is at the halt behind the *)
(* first call, sp is 0 and the stack still holds the sixteen addresses   *)
C17_Witness ==
    /\ rom = Asm(NestedCalls(StackSize))
    /\ pc = WordAt(2)
    /\ sp = 0
    /\ \A d \in 0..(StackSize - 1) : stack[d] = WordAt(2 * d + 1)

(* the instruction about to run indexes the memory or the keypad out of *)
(* range: memory[I + k] in Dxyn, Fx33, Fx55, Fx65, keypad[Vx] in Ex9E,   *)
(* ExA1                                                                  *)
IndexOutOfRange ==
    \/ InFamily(CurOp, 13) /\ CurOp % 16 > 0 /\ i + (CurOp % 16) - 1 >= MemSize
    \/ IsFx(CurOp, 51) /\ i + 2 >= MemSize
    \/ (IsFx(CurOp, 85) \/ IsFx(CurOp, 101)) /\ i + XOf(CurOp) >= MemSize
    \/ (IsEx(CurOp, 158) \/ IsEx(CurOp, 161)) /\ v[XOf(CurOp)] >= NumKeys

(* the cells lit by the sprite rows below the end of the memory *)
RowsInRange ==
    { pixel_index(v[XOf(CurOp)], v[YOf(CurOp)], rc[1], rc[2]) :
        rc \in { rc \in (0..((CurOp % 16) - 1)) \X (0..7) :
                   i + rc[1] < MemSize /\ SpriteBit(Machine, rc[1], rc[2]) } }

(* C18: a cycle started with pc + 1 >= 4096 faults and changes nothing; a *)
(* cycle whose instruction indexes memory[I + k] with I + k >= 4096 or    *)
(* keypad[Vx] with Vx > 15 faults at that instruction (pc stays on it).   *)
(* No access wraps: up to the fault the instruction has written only      *)
(* memory cells in I..4095, loaded registers only from cells in I..4095,  *)
(* toggled only cells of sprite rows read below 4096, and skipped nothing.*)
C18_OutOfRangeFaults ==
    [][ (status = "running" /\ Cycle)
        => /\ ~FetchInBounds(Machine)
              => /\ status' = "panicked"
                 /\ UNCHANGED <<memory, v, i, pc, stack, sp, display,
                                delay_timer, sound_timer, keypad>>
           /\ (FetchInBounds(Machine) /\ IndexOutOfRange)
              => /\ status' = "panicked"
                 /\ UNCHANGED <<i, pc, stack, sp, delay_timer, sound_timer, keypad>>
                 /\ MemoryKeptOutside(i..(MemSize - 1))
                 /\ \A k \in 0..(NumRegs - 1) :
                       v'[k] # v[k]
                       => \/ /\ IsFx(CurOp, 101)
                             /\ i + k < MemSize
                             /\ v'[k] = Load(memory, i + k)
                          \/ InFamily(CurOp, 13) /\ k = VF
                 /\ IF InFamily(CurOp, 13)
                    THEN display' = (display \ RowsInRange) \cup (RowsInRange \ display)
                    ELSE display' = display
                 /\ InFamily(CurOp, 15) \/ memory' = memory ]_vars

(* F255 at I = 4095 has faulted: V0 is stored in the last cell, V1 and V2 *)
(* are stored nowhere                                                     *)
C18_Witness ==
    /\ rom = Prog(<< OpKK(6, 0, 255), OpKK(6, 1, 9), OpKK(6, 2, 129),
                     OpNNN(10, MemSize - 3), Op(15, 2, 5, 5),
                     OpNNN(10, MemSize - 1), Op(15, 2, 5, 5) >>)
    /\ status = "panicked"
    /\ pc = WordAt(7)
    /\ Load(memory, MemSize - 1) = 255
    /\ Load(memory, 0) = FONTSET[1]
    /\ Load(memory, 1) = FONTSET[2]

(* w matches no documented pattern *)
Unmatched(w) ==
    \/ InFamily(w, 0) /\ w \notin {224, 238}
    \/ (InFamily(w, 5) \/ InFamily(w, 9)) /\ w % 16 # 0
    \/ InFamily(w, 8) /\ w % 16 \in (8..13) \cup {15}
    \/ InFamily(w, 14) /\ w % 256 \notin {158, 161}
    \/ InFamily(w, 15) /\ w % 256 \notin {7, 10, 21, 24, 30, 41, 51, 85, 101}

(* a timer after its tick *)
Ticked(timer) == IF timer > 0 THEN timer - 1 ELSE 0

(* C19: a cycle on a word that matches no documented pattern advances pc  *)
(* by exactly 2, raises no error, leaves memory, V0..VF, I, the stack,    *)
(* sp, the framebuffer and the keypad unchanged, and the timers take      *)
(* their tick and nothing else.                                           *)
C19_UnmatchedNoOp ==
    [][ (FetchInBounds(Machine) /\ Unmatched(CurOp) /\ CycleStep)
        => /\ pc' = pc + 2
           /\ status' = "running"
           /\ UNCHANGED <<memory, v, i, stack, sp, display, keypad>>
           /\ delay_timer' = Ticked(delay_timer)
           /\ sound_timer' = Ticked(sound_timer) ]_vars

(* C20: the tick comes after the instruction: a cycle on Fx15 with        *)
(* Vx = n ends with delay_timer = n - 1 when n > 0 and with 0 when n = 0, *)
(* and a cycle on Fx07 leaves in Vx the delay_timer the cycle started     *)
(* with.                                                                  *)
C20_ExecuteThenTick ==
    [][ (FetchInBounds(Machine) /\ CycleStep)
        => /\ IsFx(CurOp, 21) => delay_timer' = Ticked(v[XOf(CurOp)])
           /\ IsFx(CurOp, 7) => v'[XOf(CurOp)] = delay_timer ]_vars

=============================================================================
